---- MODULE Spec2Model ----
(***************************************************************************)
(* AstroGuessr scoring engine: the three user stores                       *)
(* (user_model.InMemoryUserStore, game_model.InMemoryUserStore,            *)
(* game_model.SQLiteUserStore), the classifier wrapper's training state    *)
(* and ScoreService.process_user_click.                                    *)
(*                                                                         *)
(* A service is constructed over one store.  Every variable is a function  *)
(* over the store kinds instantiated in the run, so that the same calls    *)
(* can be fed to one service (Spec, SpecConc) or to one service per store  *)
(* kind side by side (SpecAll).  last_active (a wall-clock stamp that no   *)
(* operation reads) is not modelled.                                       *)
(***************************************************************************)
EXTENDS Integers, Sequences, FiniteSets, TLC

VARIABLES users, lock, model, last, calls, frames, base, hits, created

vars == <<users, lock, model, last, calls, frames, base, hits, created>>

-----------------------------------------------------------------------------
(* Bounds of the model *)

\* Number of calls (store methods and guesses, any user) in one run of Spec,
\* SpecAll and in the set-up of SpecConc.
MaxCalls == 3

\* Number of calls in one run of SpecPlay (one player, guesses only).
MaxClicks == 9

\* Number of calls in one run of SpecBoard (three users, the leaderboard).
MaxBoardCalls == 5

\* Number of guesses each of the two concurrent users submits in SpecPar.
MaxRounds == 2

-----------------------------------------------------------------------------
(* Configuration and inputs *)

StoreKinds == {"user_model", "game_model", "sqlite"}

UserIds == {"u1", "u2"}

\* ScoreService.__init__ defaults.
base_points == 10

penalty == 5

\* BADGE_RULES thresholds.
streak_min == 7

total_hits_min == 50

BadgeNames == {"Rare Candidate", "Consistent"}

\* LEVELS, in declaration order: <<name, threshold>>.
LEVELS == << <<"Novice Seeker", 0>>, <<"Certified Hunter", 500>>, <<"Guild Master", 2500>> >>

\* The dataset: lc_id -> label sequence (Python index i is element i + 1).
\* time and flux have the same length as label (load_csv_dataset appends to
\* the three lists together).
Dataset == [lc \in {1} |-> <<0, 1>>]

\* The time and flux columns of the same rows.
DatasetTime == [lc \in {1} |-> <<10, 11>>]

DatasetFlux == [lc \in {1} |-> <<3, 1>>]

\* Inputs of a guess: light curve 2 is not in the dataset; indices -1 and 2
\* are out of range (2 is the length of the curve).
LcIds == {1, 2}

ClickIdx == {-1, 0, 1, 2}

\* What the classifier's partial_fit does in a guess: succeeds, raises in the
\* incremental update, or raises in the dump to model_path after the update.
FitOutcomes == {"ok", "update_raises", "dump_raises"}

\* Probabilities are counted in hundredths: 0.5 is 50.
Half == 50

\* What the trained estimator's predict_proba(x)[0][1] may return.
Probs == {0, 50, 100}

\* The population of the leaderboard runs, in the order Python compares the
\* ids ("u1" < "u2" < "u3").
BoardUsers == <<"u1", "u2", "u3">>

\* get_leaderboard(top_n): 5 exceeds the population.
TopNs == {0, 1, 2, 5}

\* Longest flux array handed to the wrapper directly.
MaxLen == 8

\* Sample values of those arrays.
FluxValues == {0, 3}

\* A total_correct one correct guess short of the Consistent badge.
NearConsistent == total_hits_min - 1

\* Score grants that bring a player next to the level thresholds.
LevelDeltas == {490, 2490}

\* Arguments of the direct store calls.
Deltas == {-15, 20}

UpdateFields == {"streak", "total_correct"}

UpdateVals == {0, 6}

-----------------------------------------------------------------------------
(* User records *)

\* No record for the user (SQLite: no users row; badges rows may exist).
Absent ==
  [present |-> FALSE, score |-> 0, streak |-> 0, has_tc |-> FALSE,
   total_correct |-> 0, badges |-> <<>>]

\* user_model.InMemoryUserStore._ensure_user: a record without total_correct.
EnsuredUser ==
  [present |-> TRUE, score |-> 0, streak |-> 0, has_tc |-> FALSE,
   total_correct |-> 0, badges |-> <<>>]

\* game_model._default_user_dict.
default_user_dict ==
  [present |-> TRUE, score |-> 0, streak |-> 0, has_tc |-> TRUE,
   total_correct |-> 0, badges |-> <<>>]

Range(s) == {s[i] : i \in 1..Len(s)}

Max(a, b) == IF a >= b THEN a ELSE b

Min(a, b) == IF a <= b THEN a ELSE b

\* Python's list[i]: i in -n..n-1, a negative i counting from the end.
InIndexRange(seq, i) == -Len(seq) <= i /\ i < Len(seq)

PyIndex(seq, i) == IF i >= 0 THEN seq[i + 1] ELSE seq[Len(seq) + i + 1]

\* Python's seq[lo:hi].
PySlice(seq, lo, hi) ==
  LET n == Len(seq)
      l == IF lo < 0 THEN Max(0, lo + n) ELSE Min(lo, n)
      h == IF hi < 0 THEN Max(0, hi + n) ELSE Min(hi, n)
  IN SubSeq(seq, l + 1, h)

\* dict[k] = v for the keys the services write.
SetField(rec, f, v) ==
  CASE f = "score" -> [rec EXCEPT !.score = v]
    [] f = "streak" -> [rec EXCEPT !.streak = v]
    [] f = "total_correct" -> [rec EXCEPT !.total_correct = v, !.has_tc = TRUE]

\* A store call's result: the store after it, whether it returned, its value.
Res(U, l, status, ret) == [users |-> U, lock |-> l, status |-> status, ret |-> ret]

\* A call that waits for self._lock forever.
Blocked(S) == Res(S.users, "dead", "blocked", Absent)

-----------------------------------------------------------------------------
(* user_model.InMemoryUserStore: no lock, get_user returns the stored dict *)

ensure_user(U, uid) ==
  IF U[uid].present THEN U ELSE [U EXCEPT ![uid] = EnsuredUser]

UM_get_user(S, uid) ==
  LET U == ensure_user(S.users, uid) IN Res(U, S.lock, "ok", U[uid])

UM_update_user(S, uid, f, v) ==
  LET U == ensure_user(S.users, uid)
  IN Res([U EXCEPT ![uid] = SetField(@, f, v)], S.lock, "ok", Absent)

\* Variant: the sum is stored without the floor at 0.
UM_increment_score_NoClamp(S, uid, delta) ==
  LET U == ensure_user(S.users, uid)
  IN Res([U EXCEPT ![uid].score = @ + delta], S.lock, "ok", Absent)

\* Variant: the sum is stored in every record of the store.
UM_increment_score_Everyone(S, uid, delta) ==
  LET U == ensure_user(S.users, uid)
  IN Res([u \in DOMAIN U |-> IF U[u].present
                              THEN [U[u] EXCEPT !.score = Max(0, @ + delta)]
                              ELSE U[u]], S.lock, "ok", Absent)

UM_increment_score(S, uid, delta) ==
  LET U == ensure_user(S.users, uid)
  IN Res([U EXCEPT ![uid].score = Max(0, @ + delta)], S.lock, "ok", Absent)

\* Variant: the badge is appended without the membership test.
UM_award_badge_Always(S, uid, badge) ==
  LET U == ensure_user(S.users, uid)
  IN Res([U EXCEPT ![uid].badges = Append(@, badge)], S.lock, "ok", Absent)

UM_award_badge(S, uid, badge) ==
  LET U == ensure_user(S.users, uid)
  IN Res(IF badge \in Range(U[uid].badges) THEN U
         ELSE [U EXCEPT ![uid].badges = Append(@, badge)], S.lock, "ok", Absent)

-----------------------------------------------------------------------------
(* game_model.InMemoryUserStore: every method holds self._lock; get_user   *)
(* returns a copy.  A method that finds no record calls create_user while  *)
(* holding the lock, and create_user takes the same lock.                  *)

GM_create_user(S, uid) ==
  IF S.lock = "dead" THEN Blocked(S)
  ELSE IF S.users[uid].present THEN Res(S.users, S.lock, "ok", Absent)
  ELSE Res([S.users EXCEPT ![uid] = default_user_dict], S.lock, "ok", Absent)

GM_get_user(S, uid) ==
  IF S.lock = "dead" THEN Blocked(S)
  ELSE IF ~S.users[uid].present THEN Blocked(S)
  ELSE Res(S.users, S.lock, "ok", S.users[uid])

GM_update_user(S, uid, f, v) ==
  IF S.lock = "dead" THEN Blocked(S)
  ELSE IF ~S.users[uid].present THEN Blocked(S)
  ELSE Res([S.users EXCEPT ![uid] = SetField(@, f, v)], S.lock, "ok", Absent)

GM_increment_score(S, uid, delta) ==
  IF S.lock = "dead" THEN Blocked(S)
  ELSE IF ~S.users[uid].present THEN Blocked(S)
  ELSE Res([S.users EXCEPT ![uid].score = Max(0, @ + delta)], S.lock, "ok", Absent)

GM_award_badge(S, uid, badge) ==
  IF S.lock = "dead" THEN Blocked(S)
  ELSE IF ~S.users[uid].present THEN Blocked(S)
  ELSE Res(IF badge \in Range(S.users[uid].badges) THEN S.users
           ELSE [S.users EXCEPT ![uid].badges = Append(@, badge)],
           S.lock, "ok", Absent)

-----------------------------------------------------------------------------
(* game_model.SQLiteUserStore: a users table and a badges table, every     *)
(* method under self._lock.  The badges field of a record holds the badges *)
(* rows of that user_id, which exist independently of the users row.       *)

SQL_create_user(S, uid) ==
  IF S.lock = "dead" THEN Blocked(S)
  ELSE IF S.users[uid].present THEN Res(S.users, S.lock, "ok", Absent)
  ELSE Res([S.users EXCEPT ![uid] =
              [default_user_dict EXCEPT !.badges = S.users[uid].badges]],
           S.lock, "ok", Absent)

SQL_get_user(S, uid) ==
  IF S.lock = "dead" THEN Blocked(S)
  ELSE IF ~S.users[uid].present THEN Blocked(S)
  ELSE Res(S.users, S.lock, "ok", S.users[uid])

SQL_update_user(S, uid, f, v) ==
  IF S.lock = "dead" THEN Blocked(S)
  ELSE IF ~S.users[uid].present THEN Blocked(S)
  ELSE Res([S.users EXCEPT ![uid] = SetField(@, f, v)], S.lock, "ok", Absent)

SQL_increment_score(S, uid, delta) ==
  IF S.lock = "dead" THEN Blocked(S)
  ELSE LET U == IF S.users[uid].present THEN S.users
                ELSE [S.users EXCEPT ![uid] =
                        [default_user_dict EXCEPT !.badges = S.users[uid].badges]]
       IN Res([U EXCEPT ![uid].score = Max(0, @ + delta)], S.lock, "ok", Absent)

SQL_award_badge(S, uid, badge) ==
  IF S.lock = "dead" THEN Blocked(S)
  ELSE Res(IF badge \in Range(S.users[uid].badges) THEN S.users
           ELSE [S.users EXCEPT ![uid].badges = Append(@, badge)],
           S.lock, "ok", Absent)

-----------------------------------------------------------------------------
(* get_leaderboard.  `order` lists the stored users in the order the store  *)
(* yields them: the dict's iteration order (insertion order); the rowid     *)
(* order of the table, in which the index idx_users_score keeps rows of     *)
(* equal score.                                                            *)

Entry(U, uid) == [user_id |-> uid, score |-> U[uid].score, streak |-> U[uid].streak]

\* x placed in the sorted sequence s in front of the first element it must
\* precede (before: the set of pairs <<a, b>> with a strictly before b).
InsertBy(x, s, before) ==
  LET ahead == {i \in 1..Len(s) : <<x, s[i]>> \in before}
      pos == IF ahead = {} THEN Len(s) + 1
             ELSE CHOOSE i \in ahead : \A j \in ahead : i <= j
  IN SubSeq(s, 1, pos - 1) \o <<x>> \o SubSeq(s, pos, Len(s))

\* A stable sort: elements neither of which precedes the other keep the
\* order they have in seq.
RECURSIVE SortBy(_, _)
SortBy(seq, before) ==
  IF seq = <<>> THEN <<>>
  ELSE InsertBy(seq[Len(seq)], SortBy(SubSeq(seq, 1, Len(seq) - 1), before), before)

\* The position of an id in Python's string order.
Rank(uid) == CHOOSE i \in 1..Len(BoardUsers) : BoardUsers[i] = uid

\* Descending (score, uid) tuples.
ByScoreThenId(U) ==
  {p \in (DOMAIN U) \X (DOMAIN U) :
     \/ U[p[1]].score > U[p[2]].score
     \/ U[p[1]].score = U[p[2]].score /\ Rank(p[1]) > Rank(p[2])}

\* Descending score.
ByScore(U) == {p \in (DOMAIN U) \X (DOMAIN U) : U[p[1]].score > U[p[2]].score}

\* Ascending (score, uid) tuples.
ByScoreThenIdAscending(U) ==
  {p \in (DOMAIN U) \X (DOMAIN U) :
     \/ U[p[1]].score < U[p[2]].score
     \/ U[p[1]].score = U[p[2]].score /\ Rank(p[1]) < Rank(p[2])}

\* Variant: heapq.nsmallest for heapq.nlargest.
UM_get_leaderboard_Smallest(S, top_n, order) ==
  LET top == PySlice(SortBy(order, ByScoreThenIdAscending(S.users)), 0, Max(0, top_n))
  IN Res(S.users, S.lock, "ok", [i \in 1..Len(top) |-> Entry(S.users, top[i])])

\* user_model: heapq.nlargest(top_n, [(score, uid)]), empty for top_n <= 0.
UM_get_leaderboard(S, top_n, order) ==
  LET top == PySlice(SortBy(order, ByScoreThenId(S.users)), 0, Max(0, top_n))
  IN Res(S.users, S.lock, "ok", [i \in 1..Len(top) |-> Entry(S.users, top[i])])

\* game_model: sorted(values, key=score, reverse=True)[:top_n] under the lock.
GM_get_leaderboard(S, top_n, order) ==
  IF S.lock = "dead" THEN Blocked(S)
  ELSE LET top == PySlice(SortBy(order, ByScore(S.users)), 0, top_n)
       IN Res(S.users, S.lock, "ok", [i \in 1..Len(top) |-> Entry(S.users, top[i])])

\* SQLite: SELECT ... FROM users ORDER BY score DESC LIMIT top_n under the
\* lock; a negative LIMIT is no limit.
SQL_get_leaderboard(S, top_n, order) ==
  IF S.lock = "dead" THEN Blocked(S)
  ELSE LET rows == SortBy(order, ByScore(S.users))
           top == IF top_n < 0 THEN rows ELSE PySlice(rows, 0, top_n)
       IN Res(S.users, S.lock, "ok", [i \in 1..Len(top) |-> Entry(S.users, top[i])])

-----------------------------------------------------------------------------
(* The store a service was constructed with *)

create_user(k, S, uid) ==
  CASE k = "user_model" -> Res(S.users, S.lock, "AttributeError", Absent)
    [] k = "game_model" -> GM_create_user(S, uid)
    [] k = "sqlite" -> SQL_create_user(S, uid)

get_user(k, S, uid) ==
  CASE k = "user_model" -> UM_get_user(S, uid)
    [] k = "game_model" -> GM_get_user(S, uid)
    [] k = "sqlite" -> SQL_get_user(S, uid)

update_user(k, S, uid, f, v) ==
  CASE k = "user_model" -> UM_update_user(S, uid, f, v)
    [] k = "game_model" -> GM_update_user(S, uid, f, v)
    [] k = "sqlite" -> SQL_update_user(S, uid, f, v)

increment_score(k, S, uid, delta) ==
  CASE k = "user_model" -> UM_increment_score(S, uid, delta)
    [] k = "game_model" -> GM_increment_score(S, uid, delta)
    [] k = "sqlite" -> SQL_increment_score(S, uid, delta)

award_badge(k, S, uid, badge) ==
  CASE k = "user_model" -> UM_award_badge(S, uid, badge)
    [] k = "game_model" -> GM_award_badge(S, uid, badge)
    [] k = "sqlite" -> SQL_award_badge(S, uid, badge)

\* The store the services are wired to: score_services imports
\* user_store.InMemoryUserStore, explorer_routes user_model.InMemoryUserStore
\* (src/backend/models/user_model.py).
Wired == "user_model"

get_leaderboard(k, S, top_n, order) ==
  CASE k = "user_model" -> UM_get_leaderboard(S, top_n, order)
    [] k = "game_model" -> GM_get_leaderboard(S, top_n, order)
    [] k = "sqlite" -> SQL_get_leaderboard(S, top_n, order)

\* user_model.get_user hands out the stored dict itself: a write through the
\* returned reference is a write to the store.  The other stores hand out a
\* copy (game_model: dict(...); SQLite: a dict built from the row).
ReturnsReference(k) == k = "user_model"

-----------------------------------------------------------------------------
(* ModelWrapper: the training state of the classifier *)

\* ModelWrapper.__init__ default: classes=(0,1).
classes == {0, 1}

\* initialized  self._initialized
\* updates      the incremental updates applied to self.model (its parameters)
\* labels       the classes the estimator was given on its first update
NewModel == [initialized |-> FALSE, updates |-> 0, labels |-> {}]

\* __init__ over a model_path that holds a model saved by an earlier
\* partial_fit (line 71): the saved estimator, _initialized = True.
LoadedModel == [initialized |-> TRUE, updates |-> 1, labels |-> classes]

\* The incremental update of self.model: the first one is given the classes.
Updated(M) ==
  [initialized |-> TRUE, updates |-> M.updates + 1,
   labels |-> IF M.initialized THEN M.labels ELSE classes]

\* Variant: _initialized is set before the incremental update is attempted.
partial_fit_FlagFirst(M, outcome) ==
  CASE outcome = "ok" -> [model |-> Updated(M), raised |-> FALSE]
    [] outcome = "update_raises" ->
         [model |-> [M EXCEPT !.initialized = TRUE], raised |-> TRUE]
    [] outcome = "dump_raises" -> [model |-> Updated(M), raised |-> TRUE]

\* partial_fit after featurize: the incremental update, then
\* _initialized = True (first call), then joblib.dump when model_path is set.
\* Returns the state and whether the call raised.
partial_fit(M, outcome) ==
  CASE outcome = "ok" -> [model |-> Updated(M), raised |-> FALSE]
    [] outcome = "update_raises" -> [model |-> M, raised |-> TRUE]
    [] outcome = "dump_raises" -> [model |-> Updated(M), raised |-> TRUE]

RECURSIVE SeqSum(_)
SeqSum(seq) == IF seq = <<>> THEN 0 ELSE Head(seq) + SeqSum(Tail(seq))

\* float(np.std(local)), the population standard deviation
\* sqrt(mean((x - mean)^2)), kept exactly as the pair (num, den) of
\* sqrt(num) / den: num = n * sum(x^2) - sum(x)^2, den = n.  An empty
\* window gives nan (den = 0).
np_std(local) ==
  LET n == Len(local)
      sq == [i \in 1..n |-> local[i] * local[i]]
  IN [num |-> n * SeqSum(sq) - SeqSum(local) * SeqSum(local), den |-> n]

\* Variant: the backward neighbour is read without the index - 1 >= 0 test
\* (arr[-1] is the last sample).
featurize_Wraparound(time, flux, index) ==
  IF ~InIndexRange(flux, index) \/ ~InIndexRange(flux, index - 1)
  THEN [status |-> "IndexError", x |-> <<>>]
  ELSE LET n == Len(flux)
           val == PyIndex(flux, index)
           prev == PyIndex(flux, index - 1)
           nxt == IF index + 1 < n THEN PyIndex(flux, index + 1) ELSE val
           local == PySlice(flux, Max(0, index - 3), Min(n, index + 4))
       IN [status |-> "ok", x |-> <<val, val - prev, nxt - val, np_std(local)>>]

\* featurize: arr[index] raises IndexError outside the array; time is not
\* read.
featurize(time, flux, index) ==
  IF ~InIndexRange(flux, index)
  THEN [status |-> "IndexError", x |-> <<>>]
  ELSE LET n == Len(flux)
           val == PyIndex(flux, index)
           prev == IF index - 1 >= 0 THEN PyIndex(flux, index - 1) ELSE val
           nxt == IF index + 1 < n THEN PyIndex(flux, index + 1) ELSE val
           local == PySlice(flux, Max(0, index - 3), Min(n, index + 4))
       IN [status |-> "ok", x |-> <<val, val - prev, nxt - val, np_std(local)>>]

\* Variant: the cold-start test is inverted.
predict_proba_NoColdStart(M, time, flux, index, p) ==
  LET f == featurize(time, flux, index)
  IN IF f.status # "ok"
     THEN [model |-> M, status |-> f.status, prob |-> 0, x |-> f.x]
     ELSE [model |-> M, status |-> "ok", x |-> f.x,
           prob |-> IF M.initialized THEN Half ELSE p]

\* predict_proba: featurize, then 0.5 while not _initialized, else the
\* estimator's probability p of class 1.
predict_proba(M, time, flux, index, p) ==
  LET f == featurize(time, flux, index)
  IN IF f.status # "ok"
     THEN [model |-> M, status |-> f.status, prob |-> 0, x |-> f.x]
     ELSE [model |-> M, status |-> "ok", x |-> f.x,
           prob |-> IF ~M.initialized THEN Half ELSE p]

predict(M, time, flux, index, threshold, p) ==
  LET r == predict_proba(M, time, flux, index, p)
  IN [model |-> r.model, status |-> r.status, prob |-> r.prob, x |-> r.x,
      pred |-> IF r.status = "ok" /\ r.prob >= threshold THEN 1 ELSE 0]

\* A partial_fit call from its first statement: featurize (line 62), then the
\* update, the flag and the dump.
partial_fit_call(M, time, flux, index, label, outcome) ==
  LET f == featurize(time, flux, index)
  IN IF f.status # "ok"
     THEN [model |-> M, status |-> f.status, x |-> f.x]
     ELSE LET r == partial_fit(M, outcome)
          IN [model |-> r.model, x |-> f.x,
              status |-> IF r.raised THEN "Exception" ELSE "ok"]

-----------------------------------------------------------------------------
(* score_services *)

RECURSIVE LevelLoop(_, _, _)
LevelLoop(score, i, cur) ==
  IF i > Len(LEVELS) THEN cur
  ELSE LevelLoop(score, i + 1, IF score >= LEVELS[i][2] THEN LEVELS[i][1] ELSE cur)

\* Variant: a tier is reached only above its threshold (> for >=).
RECURSIVE LevelLoop_Strict(_, _, _)
LevelLoop_Strict(score, i, cur) ==
  IF i > Len(LEVELS) THEN cur
  ELSE LevelLoop_Strict(score, i + 1, IF score > LEVELS[i][2] THEN LEVELS[i][1] ELSE cur)

compute_level_Strict(score) == LevelLoop_Strict(score, 1, LEVELS[1][1])

compute_level(score) == LevelLoop(score, 1, LEVELS[1][1])

\* Variant: the streak rule compares with > instead of >=.
award_badges_Strict(k, S, uid) ==
  LET g == get_user(k, S, uid) IN
  IF g.status # "ok" THEN g
  ELSE LET a == IF g.ret.streak > streak_min
                THEN award_badge(k, g, uid, "Rare Candidate")
                ELSE g
       IN IF a.status # "ok" THEN a
          ELSE IF g.ret.total_correct >= total_hits_min
               THEN award_badge(k, a, uid, "Consistent")
               ELSE a

\* Variant: the Consistent rule is given the threshold of the streak rule.
award_badges_WrongThreshold(k, S, uid) ==
  LET g == get_user(k, S, uid) IN
  IF g.status # "ok" THEN g
  ELSE LET a == IF g.ret.streak >= streak_min
                THEN award_badge(k, g, uid, "Rare Candidate")
                ELSE g
       IN IF a.status # "ok" THEN a
          ELSE IF g.ret.total_correct >= streak_min
               THEN award_badge(k, a, uid, "Consistent")
               ELSE a

\* ScoreService._award_badges over store state S: get_user, then one
\* award_badge per satisfied rule.  A store call that blocks ends it.
award_badges(k, S, uid) ==
  LET g == get_user(k, S, uid) IN
  IF g.status # "ok" THEN g
  ELSE LET a == IF g.ret.streak >= streak_min
                THEN award_badge(k, g, uid, "Rare Candidate")
                ELSE g
       IN IF a.status # "ok" THEN a
          ELSE IF g.ret.total_correct >= total_hits_min
               THEN award_badge(k, a, uid, "Consistent")
               ELSE a

NoOutcome ==
  [is_correct |-> FALSE, new_score |-> 0, streak |-> 0, level |-> "",
   badges |-> <<>>, total_correct |-> 0]

\* The frame of one process_user_click call: arguments, position, locals.
NewFrame(uid, lc, idx, fit) ==
  [uid |-> uid, lc |-> lc, idx |-> idx, fit |-> fit, pc |-> "load",
   status |-> "running", is_correct |-> FALSE, user |-> Absent,
   new_total |-> 0, level |-> "", fitted |-> "not_called", out |-> NoOutcome,
   first |-> FALSE, params |-> 0, fit_calls |-> 0, label |-> 0, at_fit |-> Absent,
   round |-> 0, alone |-> Absent]

IdleFrame == [NewFrame("u1", 1, 0, "ok") EXCEPT !.pc = "idle", !.status = "idle"]

\* The dict the local `user` names: the stored record or the frame's copy.
UserOf(k, C) == IF ReturnsReference(k) THEN C.users[C.fr.uid] ELSE C.fr.user

\* A store call made by the frame: take over the store, stop if it blocked.
After(C, r, fr) ==
  IF r.status = "ok"
  THEN [users |-> r.users, lock |-> r.lock, model |-> C.model, fr |-> fr]
  ELSE [users |-> r.users, lock |-> r.lock, model |-> C.model,
        fr |-> [C.fr EXCEPT !.pc = "blocked", !.status = "blocked"]]

\* Variant: the upper bound of the index check is off by one (> for >=).
StepLoad_OffByOne(k, C) ==
  IF C.fr.lc \notin DOMAIN Dataset
  THEN [C EXCEPT !.fr.pc = "done", !.fr.status = "KeyError"]
  ELSE IF C.fr.idx < 0 \/ C.fr.idx > Len(Dataset[C.fr.lc])
  THEN [C EXCEPT !.fr.pc = "done", !.fr.status = "ValueError"]
  ELSE [C EXCEPT !.fr.pc = "ensure_get"]

\* lines 70-75: load the light curve, check the index.
StepLoad(k, C) ==
  IF C.fr.lc \notin DOMAIN Dataset
  THEN [C EXCEPT !.fr.pc = "done", !.fr.status = "KeyError"]
  ELSE IF C.fr.idx < 0 \/ C.fr.idx >= Len(Dataset[C.fr.lc])
  THEN [C EXCEPT !.fr.pc = "done", !.fr.status = "ValueError"]
  ELSE [C EXCEPT !.fr.pc = "ensure_get"]

\* _ensure_user_fields, line 46-47.
StepEnsureGet(k, C) ==
  LET r == get_user(k, C, C.fr.uid)
  IN After(C, r, [C.fr EXCEPT !.pc = IF r.ret.has_tc THEN "get" ELSE "ensure_set"])

\* _ensure_user_fields, line 48.
StepEnsureSet(k, C) ==
  After(C, update_user(k, C, C.fr.uid, "total_correct", 0), [C.fr EXCEPT !.pc = "get"])

\* lines 81 and 84: lc["label"][click_index] raises IndexError outside the
\* list; then user = get_user.
StepGet(k, C) ==
  IF ~InIndexRange(Dataset[C.fr.lc], C.fr.idx)
  THEN [C EXCEPT !.fr.pc = "done", !.fr.status = "IndexError"]
  ELSE LET r == get_user(k, C, C.fr.uid)
       IN After(C, r, [C.fr EXCEPT !.pc = "streak", !.user = r.ret,
                         !.is_correct = (PyIndex(Dataset[C.fr.lc], C.fr.idx) # 0)])

\* Variant: a miss leaves the streak as it was.
StepStreak_KeepOnMiss(k, C) ==
  LET new == IF C.fr.is_correct THEN UserOf(k, C).streak + 1 ELSE UserOf(k, C).streak
  IN IF ReturnsReference(k)
     THEN [C EXCEPT !.users[C.fr.uid].streak = new, !.fr.pc = "score"]
     ELSE [C EXCEPT !.fr.user.streak = new, !.fr.pc = "score"]

\* line 86 or 93: the write goes to the dict `user` names.
StepStreak(k, C) ==
  LET new == IF C.fr.is_correct THEN UserOf(k, C).streak + 1 ELSE 0
  IN IF ReturnsReference(k)
     THEN [C EXCEPT !.users[C.fr.uid].streak = new, !.fr.pc = "score"]
     ELSE [C EXCEPT !.fr.user.streak = new, !.fr.pc = "score"]

\* Variant: the gain is base_points, not multiplied by the streak.
StepScore_FlatGain(k, C) ==
  LET delta == IF C.fr.is_correct THEN base_points ELSE -penalty
  IN After(C, increment_score(k, C, C.fr.uid, delta),
           [C.fr EXCEPT !.pc = IF C.fr.is_correct THEN "total_read" ELSE "level"])

\* lines 87-88 or 94.
StepScore(k, C) ==
  LET delta == IF C.fr.is_correct THEN base_points * UserOf(k, C).streak ELSE -penalty
  IN After(C, increment_score(k, C, C.fr.uid, delta),
           [C.fr EXCEPT !.pc = IF C.fr.is_correct THEN "total_read" ELSE "level"])

\* Variant: the + 1 is missing.
StepTotalRead_NoIncrement(k, C) ==
  [C EXCEPT !.fr.new_total = UserOf(k, C).total_correct, !.fr.pc = "total_write"]

\* line 90.
StepTotalRead(k, C) ==
  [C EXCEPT !.fr.new_total = UserOf(k, C).total_correct + 1, !.fr.pc = "total_write"]

\* line 91.
StepTotalWrite(k, C) ==
  After(C, update_user(k, C, C.fr.uid, "total_correct", C.fr.new_total),
        [C.fr EXCEPT !.pc = "level"])

\* lines 97-98.
StepLevel(k, C) ==
  LET r == get_user(k, C, C.fr.uid)
  IN After(C, r, [C.fr EXCEPT !.pc = "badges", !.level = compute_level(r.ret.score)])

\* line 99.
StepBadges(k, C) ==
  After(C, award_badges(k, C, C.fr.uid), [C.fr EXCEPT !.pc = "fit"])

\* lines 103 and 105, the call of self.model.partial_fit as the frame notes
\* it: one more call, the label it passes, and the record the store holds
\* for the user when the call is made.
FitCall(C) ==
  [C.fr EXCEPT !.fit_calls = @ + 1,
               !.label = IF C.fr.is_correct THEN 1 ELSE 0,
               !.at_fit = C.users[C.fr.uid]]

\* Variant: no try/except around partial_fit; its exception ends the call.
StepFit_Uncaught(k, C) ==
  LET p == partial_fit(C.model, C.fr.fit)
  IN IF p.raised
     THEN [C EXCEPT !.model = p.model,
                    !.fr = [FitCall(C) EXCEPT !.pc = "done", !.status = "Exception",
                                              !.fitted = "raised"]]
     ELSE [C EXCEPT !.model = p.model,
                    !.fr = [FitCall(C) EXCEPT !.pc = "respond", !.fitted = "ok"]]

\* Variant: the label passed is always 1.
StepFit_LabelOne(k, C) ==
  LET p == partial_fit(C.model, C.fr.fit)
  IN [C EXCEPT !.model = p.model,
               !.fr = [FitCall(C) EXCEPT !.pc = "respond", !.label = 1,
                         !.fitted = IF p.raised THEN "raised" ELSE "ok"]]

\* lines 103-109: the exception of partial_fit is caught.
StepFit(k, C) ==
  LET p == partial_fit(C.model, C.fr.fit)
  IN [C EXCEPT !.model = p.model,
               !.fr = [FitCall(C) EXCEPT !.pc = "respond",
                         !.fitted = IF p.raised THEN "raised" ELSE "ok"]]

\* lines 112-121.
StepRespond(k, C) ==
  LET r == get_user(k, C, C.fr.uid)
  IN After(C, r, [C.fr EXCEPT !.pc = "done", !.status = "ok",
                    !.out = [is_correct |-> C.fr.is_correct,
                             new_score |-> r.ret.score,
                             streak |-> r.ret.streak,
                             level |-> C.fr.level,
                             badges |-> r.ret.badges,
                             total_correct |-> r.ret.total_correct]])

Running(fr) == fr.pc \notin {"idle", "done", "blocked"}

\* One statement of process_user_click.
Step(k, C) ==
  CASE C.fr.pc = "load" -> StepLoad(k, C)
    [] C.fr.pc = "ensure_get" -> StepEnsureGet(k, C)
    [] C.fr.pc = "ensure_set" -> StepEnsureSet(k, C)
    [] C.fr.pc = "get" -> StepGet(k, C)
    [] C.fr.pc = "streak" -> StepStreak(k, C)
    [] C.fr.pc = "score" -> StepScore(k, C)
    [] C.fr.pc = "total_read" -> StepTotalRead(k, C)
    [] C.fr.pc = "total_write" -> StepTotalWrite(k, C)
    [] C.fr.pc = "level" -> StepLevel(k, C)
    [] C.fr.pc = "badges" -> StepBadges(k, C)
    [] C.fr.pc = "fit" -> StepFit(k, C)
    [] C.fr.pc = "respond" -> StepRespond(k, C)

RECURSIVE RunFrame(_, _)
RunFrame(k, C) == IF Running(C.fr) THEN RunFrame(k, Step(k, C)) ELSE C

\* process_user_click run from its first statement to its return (or to the
\* store call it never returns from), on store state S and classifier M.
process_user_click(k, S, M, uid, lc, idx, fit) ==
  RunFrame(k, [users |-> S.users, lock |-> S.lock, model |-> M,
               fr |-> NewFrame(uid, lc, idx, fit)])

-----------------------------------------------------------------------------
(* explorer_routes *)

\* Variant: the prediction is 1 only above 0.5 (> for >=).
get_ai_hint_Above(M, lc_id, click_index, p) ==
  IF lc_id \notin DOMAIN Dataset
  THEN [model |-> M, status |-> "KeyError", prob |-> 0, pred |-> 0]
  ELSE IF click_index < 0 \/ click_index >= Len(DatasetTime[lc_id])
  THEN [model |-> M, status |-> "ValueError", prob |-> 0, pred |-> 0]
  ELSE LET r == predict_proba(M, DatasetTime[lc_id], DatasetFlux[lc_id], click_index, p)
       IN [model |-> r.model, status |-> r.status, prob |-> r.prob,
           pred |-> IF r.status = "ok" /\ r.prob > Half THEN 1 ELSE 0]

\* ExplorerEngine.get_ai_hint: get_lightcurve (KeyError), the range check
\* against len(lc["time"]), predict_proba, the prediction.
get_ai_hint(M, lc_id, click_index, p) ==
  IF lc_id \notin DOMAIN Dataset
  THEN [model |-> M, status |-> "KeyError", prob |-> 0, pred |-> 0]
  ELSE IF click_index < 0 \/ click_index >= Len(DatasetTime[lc_id])
  THEN [model |-> M, status |-> "ValueError", prob |-> 0, pred |-> 0]
  ELSE LET r == predict_proba(M, DatasetTime[lc_id], DatasetFlux[lc_id], click_index, p)
       IN [model |-> r.model, status |-> r.status, prob |-> r.prob,
           pred |-> IF r.status = "ok" /\ r.prob >= Half THEN 1 ELSE 0]

-----------------------------------------------------------------------------
(* State *)

\* users[k][uid]  the record store k holds for uid
\* lock[k]        "free", or "dead" once a call waits for self._lock forever
\* model[k]       the ModelWrapper of the service over store k
\* last[k]        the latest call to that service or store, and how it ended
\* calls          number of calls issued so far
\* frames[t]      the process_user_click call thread t is executing
\* base           the state in which the first concurrent call started
\* hits[k][uid]   history: the correct guesses of uid that returned an outcome
\* created[k]     the users with a record in store k, in the order the
\*                records were created: the iteration order of the dict
\*                user_data, the rowid order of the table users

Threads == {"t1", "t2"}

Kinds == DOMAIN users

StoreOf(k) == [users |-> users[k], lock |-> lock[k]]

\* The service of a run with one service.
TheKind == CHOOSE k \in Kinds : TRUE

NoCall ==
  [op |-> "none", uid |-> "", lc |-> 0, idx |-> 0, fit |-> "", delta |-> 0,
   badge |-> "", field |-> "", value |-> 0, unknown |-> FALSE,
   status |-> "", ret |-> Absent, out |-> NoOutcome,
   fit_calls |-> 0, label |-> 0, at_fit |-> Absent]

NoBase == [set |-> FALSE, users |-> [u \in UserIds |-> Absent], lock |-> "free"]

\* Services over fresh stores of the kinds ks, for the users us, with a
\* classifier in state m.
InitWith(ks, us, m) ==
  /\ users = [k \in ks |-> [u \in us |-> Absent]]
  /\ lock = [k \in ks |-> "free"]
  /\ model = [k \in ks |-> m]
  /\ last = [k \in ks |-> NoCall]
  /\ calls = 0
  /\ frames = [t \in Threads |-> IdleFrame]
  /\ base = NoBase
  /\ hits = [k \in ks |-> [u \in us |-> 0]]
  /\ created = [k \in ks |-> <<>>]

InitOver(ks) == InitWith(ks, UserIds, NewModel)

\* One service, over one of the three stores.
Init == \E k \in StoreKinds : InitOver({k})

\* One service per store, side by side.
InitAll == InitOver(StoreKinds)

\* The creation order of store k once its records are U: a call creates at
\* most one record (self.user_data[user_id] = ..., INSERT INTO users), which
\* comes last.
Grown(k, U) ==
  LET new == {u \in DOMAIN U : U[u].present /\ ~users[k][u].present}
  IN IF new = {} THEN created[k]
     ELSE Append(created[k], CHOOSE u \in new : TRUE)

\* The call `call` (its fields over NoCall) ended with store-call result r(k).
Record(call, k, r) ==
  [call EXCEPT !.unknown = ~users[k][call.uid].present,
               !.status = r.status, !.ret = r.ret]

\* A direct call to a store method, with result R[k] in the store of kind k.
StoreCall(call, R) ==
  /\ calls < MaxCalls
  /\ \A t \in Threads : frames[t].pc = "idle"
  /\ users' = [k \in Kinds |-> R[k].users]
  /\ lock' = [k \in Kinds |-> R[k].lock]
  /\ last' = [k \in Kinds |-> Record(call, k, R[k])]
  /\ created' = [k \in Kinds |-> Grown(k, R[k].users)]
  /\ calls' = calls + 1
  /\ UNCHANGED <<model, frames, base, hits>>

CreateUser(uid) ==
  LET R == [k \in Kinds |-> create_user(k, StoreOf(k), uid)]
  IN StoreCall([NoCall EXCEPT !.op = "create_user", !.uid = uid], R)

GetUser(uid) ==
  LET R == [k \in Kinds |-> get_user(k, StoreOf(k), uid)]
  IN StoreCall([NoCall EXCEPT !.op = "get_user", !.uid = uid], R)

UpdateUser(uid, f, v) ==
  LET R == [k \in Kinds |-> update_user(k, StoreOf(k), uid, f, v)]
  IN StoreCall([NoCall EXCEPT !.op = "update_user", !.uid = uid,
                              !.field = f, !.value = v], R)

IncrementScore(uid, delta) ==
  LET R == [k \in Kinds |-> increment_score(k, StoreOf(k), uid, delta)]
  IN StoreCall([NoCall EXCEPT !.op = "increment_score", !.uid = uid,
                              !.delta = delta], R)

AwardBadge(uid, badge) ==
  LET R == [k \in Kinds |-> award_badge(k, StoreOf(k), uid, badge)]
  IN StoreCall([NoCall EXCEPT !.op = "award_badge", !.uid = uid,
                              !.badge = badge], R)

\* What a finished (or blocked) process_user_click frame leaves in last.
ClickRecord(k, U, fr) ==
  [NoCall EXCEPT !.op = "process_user_click", !.uid = fr.uid, !.lc = fr.lc,
                 !.idx = fr.idx,
                 !.fit = IF fr.fitted = "not_called" THEN "not_called" ELSE fr.fit,
                 !.unknown = ~U[fr.uid].present,
                 !.status = fr.status, !.out = fr.out,
                 !.fit_calls = fr.fit_calls, !.label = fr.label,
                 !.at_fit = fr.at_fit]

\* The history of correct guesses after the frame fr has ended.
Tally(h, fr) ==
  IF fr.status = "ok" /\ fr.is_correct THEN [h EXCEPT ![fr.uid] = @ + 1] ELSE h

\* ExplorerEngine.submit_click -> ScoreService.process_user_click, run from
\* call to return, in every service of the run.
Click(uid, lc, idx, fit) ==
  LET R(k) == process_user_click(k, StoreOf(k), model[k], uid, lc, idx, fit)
  IN /\ \A t \in Threads : frames[t].pc = "idle"
     /\ users' = [k \in Kinds |-> R(k).users]
     /\ lock' = [k \in Kinds |-> R(k).lock]
     /\ model' = [k \in Kinds |-> R(k).model]
     /\ last' = [k \in Kinds |-> ClickRecord(k, users[k], R(k).fr)]
     /\ hits' = [k \in Kinds |-> Tally(hits[k], R(k).fr)]
     /\ created' = [k \in Kinds |-> Grown(k, R(k).users)]
     /\ calls' = calls + 1
     /\ UNCHANGED <<frames, base>>

ProcessUserClick(uid, lc, idx, fit) ==
  /\ calls < MaxCalls
  /\ Click(uid, lc, idx, fit)

Next ==
  \/ \E u \in UserIds : CreateUser(u)
  \/ \E u \in UserIds : GetUser(u)
  \/ \E u \in UserIds, f \in UpdateFields, v \in UpdateVals : UpdateUser(u, f, v)
  \/ \E u \in UserIds, d \in Deltas : IncrementScore(u, d)
  \/ \E u \in UserIds, b \in BadgeNames : AwardBadge(u, b)
  \/ \E u \in UserIds, lc \in LcIds, i \in ClickIdx, f \in FitOutcomes :
       ProcessUserClick(u, lc, i, f)

Spec == Init /\ [][Next]_vars

\* The user gets a record in every store of the run, by the call that creates
\* one there: get_user (user_model._ensure_user), create_user (game_model).
EnsureAccount(uid) ==
  LET R == [k \in Kinds |-> IF k = "user_model" THEN get_user(k, StoreOf(k), uid)
                            ELSE create_user(k, StoreOf(k), uid)]
  IN StoreCall([NoCall EXCEPT !.op = "ensure_account", !.uid = uid], R)

NextAll ==
  \/ \E u \in UserIds : EnsureAccount(u)
  \/ \E u \in UserIds, lc \in LcIds, i \in ClickIdx, f \in FitOutcomes :
       ProcessUserClick(u, lc, i, f)

SpecAll == InitAll /\ [][NextAll]_vars

-----------------------------------------------------------------------------
(* One player: an account is created where the store offers create_user,   *)
(* then only guesses are submitted.                                        *)

Player == "u1"

Register ==
  /\ calls = 0
  /\ CreateUser(Player)

Play(lc, idx, fit) ==
  /\ calls < MaxClicks
  /\ Click(Player, lc, idx, fit)

NextPlay ==
  \/ Register
  \/ \E lc \in LcIds, i \in ClickIdx, f \in FitOutcomes : Play(lc, i, f)

SpecPlay == Init /\ [][NextPlay]_vars

-----------------------------------------------------------------------------
(* One player from a blank record, or from the record 49 correct guesses   *)
(* with no seven in a row, then misses, leave (total_correct 49, streak    *)
(* and score 0, no badge), written through update_user; then only guesses. *)

Seasoned ==
  /\ \A k \in Kinds : last[k].op \notin {"process_user_click", "update_user"}
  /\ UpdateUser(Player, "total_correct", NearConsistent)

NextBadge ==
  \/ Register
  \/ Seasoned
  \/ \E lc \in LcIds, i \in ClickIdx, f \in FitOutcomes : Play(lc, i, f)

SpecBadge == Init /\ [][NextBadge]_vars

-----------------------------------------------------------------------------
(* One player near the level thresholds: score grants through              *)
(* increment_score, then guesses.                                          *)

NextLevel ==
  \/ CreateUser(Player)
  \/ \E d \in LevelDeltas : IncrementScore(Player, d)
  \/ \E lc \in LcIds, i \in ClickIdx, f \in FitOutcomes :
       ProcessUserClick(Player, lc, i, f)

SpecLevel == Init /\ [][NextLevel]_vars

-----------------------------------------------------------------------------
(* The classifier and the hint: direct calls to the ModelWrapper and to     *)
(* ExplorerEngine.get_ai_hint, next to guesses.  The wrapper is constructed *)
(* without a saved model or over one.                                      *)

NoWrapperCall ==
  [op |-> "none", lc |-> 0, time |-> <<>>, flux |-> <<>>, idx |-> 0, label |-> 0,
   fit |-> "", status |-> "", prob |-> 0, pred |-> 0, x |-> <<>>]

\* A call that touches nothing but the classifier: M[k] is the classifier
\* and rec[k] the record of the call in the service over store k.
WrapperCall(rec, M) ==
  /\ \A t \in Threads : frames[t].pc = "idle"
  /\ model' = M
  /\ last' = rec
  /\ calls' = calls + 1
  /\ UNCHANGED <<users, lock, frames, base, hits, created>>

PredictProba(time, flux, idx, p) ==
  LET R == [k \in Kinds |-> predict_proba(model[k], time, flux, idx, p)]
  IN WrapperCall([k \in Kinds |->
                    [NoWrapperCall EXCEPT !.op = "predict_proba", !.time = time,
                       !.flux = flux, !.idx = idx, !.status = R[k].status,
                       !.prob = R[k].prob, !.x = R[k].x]],
                 [k \in Kinds |-> R[k].model])

Predict(time, flux, idx, p) ==
  LET R == [k \in Kinds |-> predict(model[k], time, flux, idx, Half, p)]
  IN WrapperCall([k \in Kinds |->
                    [NoWrapperCall EXCEPT !.op = "predict", !.time = time,
                       !.flux = flux, !.idx = idx, !.status = R[k].status,
                       !.prob = R[k].prob, !.pred = R[k].pred, !.x = R[k].x]],
                 [k \in Kinds |-> R[k].model])

PartialFit(time, flux, idx, label, fit) ==
  LET R == [k \in Kinds |-> partial_fit_call(model[k], time, flux, idx, label, fit)]
  IN WrapperCall([k \in Kinds |->
                    [NoWrapperCall EXCEPT !.op = "partial_fit", !.time = time,
                       !.flux = flux, !.idx = idx, !.label = label, !.fit = fit,
                       !.status = R[k].status, !.x = R[k].x]],
                 [k \in Kinds |-> R[k].model])

GetAiHint(lc, idx, p) ==
  LET R == [k \in Kinds |-> get_ai_hint(model[k], lc, idx, p)]
  IN WrapperCall([k \in Kinds |->
                    [NoWrapperCall EXCEPT !.op = "get_ai_hint", !.lc = lc,
                       !.idx = idx, !.status = R[k].status,
                       !.prob = R[k].prob, !.pred = R[k].pred]],
                 [k \in Kinds |-> R[k].model])

InitModel == \E m \in {NewModel, LoadedModel} : InitWith({Wired}, UserIds, m)

NextModel ==
  \/ \E lc \in DOMAIN Dataset, i \in ClickIdx, p \in Probs :
       calls < MaxCalls /\ PredictProba(DatasetTime[lc], DatasetFlux[lc], i, p)
  \/ \E lc \in DOMAIN Dataset, i \in ClickIdx, p \in Probs :
       calls < MaxCalls /\ Predict(DatasetTime[lc], DatasetFlux[lc], i, p)
  \/ \E lc \in DOMAIN Dataset, i \in ClickIdx, y \in classes, f \in FitOutcomes :
       calls < MaxCalls /\ PartialFit(DatasetTime[lc], DatasetFlux[lc], i, y, f)
  \/ \E lc \in LcIds, i \in ClickIdx, p \in Probs :
       calls < MaxCalls /\ GetAiHint(lc, i, p)
  \/ \E lc \in LcIds, i \in ClickIdx, f \in FitOutcomes :
       ProcessUserClick(Player, lc, i, f)

SpecModel == InitModel /\ [][NextModel]_vars

-----------------------------------------------------------------------------
(* The feature vector: one call of featurize, predict_proba or partial_fit *)
(* on an arbitrary flux array, with two different time arrays, on a        *)
(* wrapper constructed without a saved model or over one.                   *)

Fluxes == UNION {[1..n -> FluxValues] : n \in 1..MaxLen}

\* Two time arrays for a flux array: sample numbers, and tenfold.
Times(flux) == {[i \in DOMAIN flux |-> i], [i \in DOMAIN flux |-> 10 * i]}

FeatIdx == -1..MaxLen

Featurize(time, flux, idx) ==
  LET f == featurize(time, flux, idx)
  IN WrapperCall([k \in Kinds |->
                    [NoWrapperCall EXCEPT !.op = "featurize", !.time = time,
                       !.flux = flux, !.idx = idx, !.status = f.status,
                       !.x = f.x]],
                 model)

NextFeat ==
  \/ /\ calls = 0
     /\ \E flux \in Fluxes, i \in FeatIdx : \E time \in Times(flux) :
          Featurize(time, flux, i)
  \/ /\ calls = 0
     /\ \E flux \in Fluxes, i \in FeatIdx, p \in Probs : \E time \in Times(flux) :
          PredictProba(time, flux, i, p)
  \/ /\ calls = 0
     /\ \E flux \in Fluxes, i \in FeatIdx, y \in classes, f \in FitOutcomes :
          \E time \in Times(flux) : PartialFit(time, flux, i, y, f)

SpecFeat == InitModel /\ [][NextFeat]_vars

-----------------------------------------------------------------------------
(* The leaderboard: three users get accounts and scores through the store  *)
(* API, and the leaderboard is queried.                                    *)

\* The users store k holds a record (a users row) for.
Stored_users(k) == {u \in DOMAIN users[k] : users[k][u].present}

\* A direct call to a store method in a leaderboard run.
BoardCall(call, R) ==
  /\ calls < MaxBoardCalls
  /\ users' = [k \in Kinds |-> R[k].users]
  /\ lock' = [k \in Kinds |-> R[k].lock]
  /\ last' = [k \in Kinds |-> call[k]]
  /\ created' = [k \in Kinds |-> Grown(k, R[k].users)]
  /\ calls' = calls + 1
  /\ UNCHANGED <<model, frames, base, hits>>

\* The user gets a record: get_user (user_model), create_user (the others).
Enroll(uid) ==
  LET R == [k \in Kinds |-> IF k = "user_model" THEN get_user(k, StoreOf(k), uid)
                            ELSE create_user(k, StoreOf(k), uid)]
  IN BoardCall([k \in Kinds |->
                  Record([NoCall EXCEPT !.op = "enroll", !.uid = uid], k, R[k])], R)

Earn(uid, delta) ==
  LET R == [k \in Kinds |-> increment_score(k, StoreOf(k), uid, delta)]
  IN BoardCall([k \in Kinds |->
                  Record([NoCall EXCEPT !.op = "increment_score", !.uid = uid,
                                        !.delta = delta], k, R[k])], R)

\* The orders in which the users in us can be listed.
Orders(us) ==
  {o \in [1..Cardinality(us) -> us] : \A i, j \in DOMAIN o : o[i] = o[j] => i = j}

\* The record of a get_leaderboard call; repeat: the call before it was a
\* get_leaderboard with the same top_n.
BoardRecord(k, top_n, r) ==
  [op |-> "get_leaderboard", top_n |-> top_n, status |-> r.status,
   board |-> IF r.status = "ok" THEN r.ret ELSE <<>>,
   repeat |-> last[k].op = "get_leaderboard" /\ last[k].top_n = top_n]

\* Variant: each call meets the records in an order of its own.
GetLeaderboard_AnyOrder(top_n) ==
  \E o \in Orders(Stored_users(TheKind)) :
    LET R == [k \in Kinds |-> get_leaderboard(k, StoreOf(k), top_n, o)]
    IN BoardCall([k \in Kinds |-> BoardRecord(k, top_n, R[k])], R)

\* get_leaderboard over the records in the order the store holds them.
GetLeaderboard(top_n) ==
  LET R == [k \in Kinds |-> get_leaderboard(k, StoreOf(k), top_n, created[k])]
  IN BoardCall([k \in Kinds |-> BoardRecord(k, top_n, R[k])], R)

InitBoard ==
  \E k \in StoreKinds :
    InitWith({k}, {BoardUsers[i] : i \in DOMAIN BoardUsers}, NewModel)

NextBoard ==
  \/ \E i \in DOMAIN BoardUsers : Enroll(BoardUsers[i])
  \/ \E i \in DOMAIN BoardUsers, d \in Deltas : Earn(BoardUsers[i], d)
  \/ \E n \in TopNs : GetLeaderboard(n)

SpecBoard == InitBoard /\ [][NextBoard]_vars

-----------------------------------------------------------------------------
(* Concurrent guesses: each thread executes one process_user_click, one    *)
(* statement (one store call) at a time.  ScoreService takes no lock of    *)
(* its own; a store call is atomic (the locking stores hold self._lock     *)
(* for the whole method).                                                  *)

ConcIdx == {0, 1}

Start(t, uid, idx, fit) ==
  /\ frames[t].pc = "idle"
  /\ frames' = [frames EXCEPT ![t] = NewFrame(uid, 1, idx, fit)]
  /\ base' = IF base.set THEN base
             ELSE [set |-> TRUE, users |-> users[TheKind], lock |-> lock[TheKind]]
  /\ UNCHANGED <<users, lock, model, last, calls, hits, created>>

ThreadStep(t) ==
  /\ Running(frames[t])
  /\ LET k == TheKind
         C == Step(k, [users |-> users[k], lock |-> lock[k], model |-> model[k],
                       fr |-> frames[t]])
     IN /\ users' = [users EXCEPT ![k] = C.users]
        /\ lock' = [lock EXCEPT ![k] = C.lock]
        /\ model' = [model EXCEPT ![k] = C.model]
        /\ frames' = [frames EXCEPT ![t] = C.fr]
        /\ last' = IF Running(C.fr) THEN last
                   ELSE [last EXCEPT ![k] = ClickRecord(k, base.users, C.fr)]
        /\ hits' = [hits EXCEPT ![k] = Tally(@, C.fr)]
        /\ created' = [created EXCEPT ![k] = Grown(k, C.users)]
  /\ UNCHANGED <<calls, base>>

NextConc ==
  \/ \E u \in UserIds : CreateUser(u)
  \/ \E t \in Threads, u \in UserIds, i \in ConcIdx, f \in FitOutcomes :
       Start(t, u, i, f)
  \/ \E t \in Threads : ThreadStep(t)

SpecConc == Init /\ [][NextConc]_vars

-----------------------------------------------------------------------------
(* Concurrent guesses of two users, with partial_fit executed statement by *)
(* statement: neither ScoreService nor ModelWrapper takes a lock around     *)
(* it, and the estimator's update reads its parameters and writes them      *)
(* back.  The classifier does not depend on the store: the service runs     *)
(* over the wired one.                                                     *)

\* lines 62-64: featurize, then the test of self._initialized.
StepFitCheck(k, C) ==
  [C EXCEPT !.fr = [FitCall(C) EXCEPT !.first = ~C.model.initialized,
                                      !.pc = "fit_read"]]

\* lines 65/68, self.model.partial_fit: the estimator reads its parameters;
\* an exception it raises is caught at line 106.
StepFitRead(k, C) ==
  IF C.fr.fit = "update_raises"
  THEN [C EXCEPT !.fr.fitted = "raised", !.fr.pc = "respond"]
  ELSE [C EXCEPT !.fr.params = C.model.updates, !.fr.pc = "fit_write"]

\* lines 65/68, self.model.partial_fit: the estimator stores the parameters
\* it computed from those it read; on the first-call branch it is given the
\* classes.
StepFitWrite(k, C) ==
  [C EXCEPT !.model.updates = C.fr.params + 1,
            !.model.labels = IF C.fr.first THEN classes ELSE @,
            !.fr.pc = "fit_flag"]

\* line 66.
StepFitFlag(k, C) ==
  [C EXCEPT !.model.initialized = IF C.fr.first THEN TRUE ELSE @,
            !.fr.pc = "fit_dump"]

\* lines 70-71, and the except clause at line 106.
StepFitDump(k, C) ==
  [C EXCEPT !.fr.fitted = IF C.fr.fit = "dump_raises" THEN "raised" ELSE "ok",
            !.fr.pc = "respond"]

\* One statement of process_user_click, those of partial_fit included.
StepFine(k, C) ==
  CASE C.fr.pc = "fit" -> StepFitCheck(k, C)
    [] C.fr.pc = "fit_read" -> StepFitRead(k, C)
    [] C.fr.pc = "fit_write" -> StepFitWrite(k, C)
    [] C.fr.pc = "fit_flag" -> StepFitFlag(k, C)
    [] C.fr.pc = "fit_dump" -> StepFitDump(k, C)
    [] OTHER -> Step(k, C)

\* The user each thread submits a guess for.
Caller == [t \in Threads |-> IF t = "t1" THEN "u1" ELSE "u2"]

ThreadStepFit(t) ==
  /\ Running(frames[t])
  /\ LET k == TheKind
         C == StepFine(k, [users |-> users[k], lock |-> lock[k],
                           model |-> model[k], fr |-> frames[t]])
     IN /\ users' = [users EXCEPT ![k] = C.users]
        /\ lock' = [lock EXCEPT ![k] = C.lock]
        /\ model' = [model EXCEPT ![k] = C.model]
        /\ frames' = [frames EXCEPT ![t] = C.fr]
        /\ last' = IF Running(C.fr) THEN last
                   ELSE [last EXCEPT ![k] = ClickRecord(k, base.users, C.fr)]
        /\ hits' = [hits EXCEPT ![k] = Tally(@, C.fr)]
        /\ created' = [created EXCEPT ![k] = Grown(k, C.users)]
  /\ UNCHANGED <<calls, base>>

InitFit == InitOver({Wired})

NextFit ==
  \/ \E t \in Threads, i \in ConcIdx, f \in FitOutcomes : Start(t, Caller[t], i, f)
  \/ \E t \in Threads : ThreadStepFit(t)

SpecFit == InitFit /\ [][NextFit]_vars

-----------------------------------------------------------------------------
(* Concurrent guesses of two different users: each thread submits the      *)
(* guesses of its user one after the other, and the statements of the two  *)
(* threads interleave.  The frame carries along the record its user's     *)
(* guesses leave when they run alone.  partial_fit succeeds: its failures  *)
(* do not reach the user records.                                          *)

\* The record of uid after process_user_click run alone on a store that
\* holds rec for uid.
AloneAfter(k, rec, uid, lc, idx, fit) ==
  process_user_click(k, [users |-> [u \in UserIds |-> IF u = uid THEN rec ELSE Absent],
                         lock |-> "free"],
                     NewModel, uid, lc, idx, fit).users[uid]

\* Thread t submits the next guess of its user.
StartRound(t, idx, fit) ==
  /\ frames[t].pc \in {"idle", "done"}
  /\ frames[t].round < MaxRounds
  /\ LET uid == Caller[t]
         k == TheKind
         before == IF frames[t].round > 0 THEN frames[t].alone
                   ELSE IF base.set THEN base.users[uid]
                   ELSE users[k][uid]
     IN frames' = [frames EXCEPT ![t] =
                     [NewFrame(uid, 1, idx, fit) EXCEPT
                        !.round = frames[t].round + 1,
                        !.alone = AloneAfter(k, before, uid, 1, idx, fit)]]
  /\ base' = IF base.set THEN base
             ELSE [set |-> TRUE, users |-> users[TheKind], lock |-> lock[TheKind]]
  /\ UNCHANGED <<users, lock, model, last, calls, hits, created>>

NextPar ==
  \/ \E u \in UserIds : CreateUser(u)
  \/ \E t \in Threads, i \in ConcIdx : StartRound(t, i, "ok")
  \/ \E t \in Threads : ThreadStep(t)

SpecPar == Init /\ [][NextPar]_vars

-----------------------------------------------------------------------------
(* A guess and a concurrent reader: one thread executes one                *)
(* process_user_click of the player statement by statement, and get_user   *)
(* calls from another thread run between its statements.                   *)

Guesser == "t1"

\* store.get_user called by another thread, whatever the guess is at.
ConcurrentGetUser(uid) ==
  LET R == [k \in Kinds |-> get_user(k, StoreOf(k), uid)]
  IN /\ calls < MaxCalls
     /\ users' = [k \in Kinds |-> R[k].users]
     /\ lock' = [k \in Kinds |-> R[k].lock]
     /\ last' = [k \in Kinds |->
                   Record([NoCall EXCEPT !.op = "get_user", !.uid = uid], k, R[k])]
     /\ created' = [k \in Kinds |-> Grown(k, R[k].users)]
     /\ calls' = calls + 1
     /\ UNCHANGED <<model, frames, base, hits>>

NextRead ==
  \/ CreateUser(Player)
  \/ \E i \in ConcIdx, f \in FitOutcomes : Start(Guesser, Player, i, f)
  \/ ThreadStep(Guesser)
  \/ \E u \in UserIds : ConcurrentGetUser(u)

SpecRead == Init /\ [][NextRead]_vars

-----------------------------------------------------------------------------
(* Properties *)

RareCandidate == "Rare Candidate"

\* The call that produced the next state was a guess that returned an outcome.
GuessReturned(k) ==
  /\ last'[k].op = "process_user_click"
  /\ last'[k].status = "ok"

NoDuplicates(seq) == \A i, j \in 1..Len(seq) : seq[i] = seq[j] => i = j

\* C1: over the wired store, a correct guess sets the stored streak to
\* old_streak + 1 and raises the score by base_points * (old_streak + 1), an
\* incorrect one in the scenario costs the penalty; the outcome reports the
\* stored values.  From (score 0, streak 0): correct gives (1, 10), correct
\* again (2, 30), incorrect (0, 25).
C1_RewardRule ==
  [][\A k \in Kinds :
       (k = Wired /\ GuessReturned(k)) =>
         LET u == last'[k].uid
             old == users[k][u]
             new == users'[k][u]
             out == last'[k].out
         IN /\ out.streak = new.streak
            /\ out.new_score = new.score
            /\ out.is_correct =>
                 /\ new.streak = old.streak + 1
                 /\ new.score = old.score + base_points * (old.streak + 1)
            /\ (out.is_correct /\ old.streak = 0 /\ old.score = 0) =>
                 (new.streak = 1 /\ new.score = 10)
            /\ (out.is_correct /\ old.streak = 1 /\ old.score = 10) =>
                 (new.streak = 2 /\ new.score = 30)
            /\ (~out.is_correct /\ old.streak = 2 /\ old.score = 30) =>
                 (new.streak = 0 /\ new.score = 25)
    ]_vars

\* The scenario's last step has happened: after two correct guesses a miss
\* left (streak 0, score 25).
C1_Witness ==
  \E k \in Kinds, u \in UserIds :
    /\ k = Wired
    /\ last[k].op = "process_user_click" /\ last[k].status = "ok"
    /\ last[k].uid = u /\ ~last[k].out.is_correct
    /\ last[k].out.streak = 0 /\ last[k].out.new_score = 25
    /\ last[k].out.total_correct = 2
    /\ users[k][u].streak = 0 /\ users[k][u].score = 25

\* C2: over the wired store, an incorrect guess leaves the stored streak and
\* the outcome's streak at 0 whatever the streak was, and the score at
\* max(0, old_score - penalty).
C2_MissResetsStreak ==
  [][\A k \in Kinds :
       (k = Wired /\ GuessReturned(k) /\ ~last'[k].out.is_correct) =>
         LET u == last'[k].uid
         IN /\ users'[k][u].streak = 0
            /\ last'[k].out.streak = 0
            /\ users'[k][u].score = Max(0, users[k][u].score - penalty)
            /\ last'[k].out.new_score = users'[k][u].score
    ]_vars

\* A miss right after one correct guess from zero: streak 1 fell to 0 and the
\* score 10 to 5.
C2_Witness ==
  \E k \in Kinds, u \in UserIds :
    /\ k = Wired
    /\ last[k].op = "process_user_click" /\ last[k].status = "ok"
    /\ last[k].uid = u /\ ~last[k].out.is_correct
    /\ last[k].out.total_correct = 1 /\ last[k].out.new_score = 5
    /\ users[k][u].streak = 0

\* C3: in every store, an increment_score call that returns leaves
\* score = max(0, old_score + delta), and no stored score is ever negative.
C3_ScoreClamped ==
  [][\A k \in Kinds :
       /\ \A u \in UserIds : users'[k][u].score >= 0
       /\ (last'[k].op = "increment_score" /\ last'[k].status = "ok") =>
            users'[k][last'[k].uid].score =
              Max(0, users[k][last'[k].uid].score + last'[k].delta)
    ]_vars

\* A negative delta larger than the score (10, from one correct guess) was
\* clamped to 0.
C3_Witness ==
  \E k \in Kinds, u \in UserIds :
    /\ last[k].op = "increment_score" /\ last[k].status = "ok"
    /\ last[k].uid = u /\ last[k].delta = -15
    /\ users[k][u].total_correct = 1 /\ users[k][u].score = 0

\* C4: a guess with an unknown light curve or with click_index outside
\* [0, length) raises (KeyError, ValueError) and changes no user record, no
\* lock and no classifier state.
C4_InvalidGuessChangesNothing ==
  [][\A k \in Kinds :
       last'[k].op = "process_user_click" =>
         LET c == last'[k]
             invalid == \/ c.lc \notin DOMAIN Dataset
                        \/ c.idx < 0
                        \/ c.idx >= Len(Dataset[c.lc])
         IN /\ invalid => c.status \in {"KeyError", "ValueError"}
            /\ c.status \notin {"ok", "blocked"} =>
                 /\ invalid
                 /\ users'[k] = users[k]
                 /\ lock'[k] = lock[k]
                 /\ model'[k] = model[k]
                 /\ c.fit = "not_called"
    ]_vars

\* click_index = length on a known curve was refused, and the user still has
\* no record.
C4_Witness ==
  \E k \in Kinds :
    /\ last[k].op = "process_user_click" /\ last[k].status = "ValueError"
    /\ last[k].lc \in DOMAIN Dataset
    /\ last[k].idx = Len(Dataset[last[k].lc])
    /\ ~users[k][last[k].uid].present
    /\ users[k][last[k].uid].badges = <<>>

\* C5: in every store, award_badge, increment_score and process_user_click
\* never remove a badge and never store one twice, and award_badge of a badge
\* the user holds leaves the badge list as it was.
C5_BadgesMonotone ==
  [][\A k \in Kinds :
       last'[k].op \in {"award_badge", "increment_score", "process_user_click"} =>
         /\ \A u \in UserIds :
              /\ Range(users[k][u].badges) \subseteq Range(users'[k][u].badges)
              /\ NoDuplicates(users'[k][u].badges)
         /\ (/\ last'[k].op = "award_badge"
             /\ last'[k].badge \in Range(users[k][last'[k].uid].badges)) =>
              users'[k][last'[k].uid].badges = users[k][last'[k].uid].badges
    ]_vars

\* "Consistent" was awarded again while already held (it precedes a badge
\* awarded later), and is stored once.
C5_Witness ==
  \E k \in Kinds, u \in UserIds :
    /\ last[k].op = "award_badge" /\ last[k].status = "ok"
    /\ last[k].uid = u /\ last[k].badge = "Consistent"
    /\ users[k][u].badges = <<"Consistent", "Rare Candidate">>

\* C6: when a correct guess brings the streak to streak_min (7) or beyond,
\* "Rare Candidate" is in that guess's outcome; and once the user holds it,
\* it is in the outcome of every later guess, a miss that resets the streak
\* included.
C6_StreakBadgeKept ==
  [][\A k \in Kinds :
       GuessReturned(k) =>
         LET u == last'[k].uid
             out == last'[k].out
         IN /\ (out.is_correct /\ out.streak >= streak_min) =>
                 RareCandidate \in Range(out.badges)
            /\ RareCandidate \in Range(users[k][u].badges) =>
                 /\ RareCandidate \in Range(out.badges)
                 /\ RareCandidate \in Range(users'[k][u].badges)
    ]_vars

\* Seven consecutive correct guesses from zero (score 280), then a miss: the
\* outcome of the miss has streak 0, score 275 and the badge.
C6_Witness ==
  \E k \in Kinds :
    /\ last[k].op = "process_user_click" /\ last[k].status = "ok"
    /\ ~last[k].out.is_correct
    /\ last[k].out.streak = 0
    /\ last[k].out.total_correct = 7
    /\ last[k].out.new_score = 275
    /\ RareCandidate \in Range(last[k].out.badges)

\* process_user_click run alone for frame a, then for frame b, from the
\* state in which the concurrent calls started.
Serial(k, a, b) ==
  LET first == process_user_click(k, base, NewModel, a.uid, a.lc, a.idx, a.fit)
      second == process_user_click(k, first, first.model, b.uid, b.lc, b.idx, b.fit)
  IN second.users

\* C7: when two concurrent guesses of the same user have both returned, the
\* store holds what running the two guesses one after the other, in one of
\* the two orders, would have left.
C7_Serialized ==
  (/\ \A t \in Threads : frames[t].pc = "done" /\ frames[t].status = "ok"
   /\ frames["t1"].uid = frames["t2"].uid) =>
    users[TheKind] \in {Serial(TheKind, frames["t1"], frames["t2"]),
                        Serial(TheKind, frames["t2"], frames["t1"])}

\* C8: get_user, update_user, increment_score and award_badge for a user
\* without a record return (no call waits for the store's lock), and get_user
\* returns the zeroed record it created.
C8_UnknownUserReturns ==
  \A k \in Kinds :
    (/\ last[k].op \in {"get_user", "update_user", "increment_score", "award_badge"}
     /\ last[k].unknown) =>
      /\ last[k].status = "ok"
      /\ last[k].op = "get_user" =>
           /\ users[k][last[k].uid].present
           /\ last[k].ret = users[k][last[k].uid]
           /\ last[k].ret.score = 0 /\ last[k].ret.streak = 0
           /\ last[k].ret.total_correct = 0 /\ last[k].ret.badges = <<>>

\* What a caller can read of a user's record.
Stored(rec) ==
  [present |-> rec.present, score |-> rec.score, streak |-> rec.streak,
   total_correct |-> rec.total_correct, badges |-> Range(rec.badges)]

\* What a caller sees of a guess.
Seen(c) ==
  [status |-> c.status, is_correct |-> c.out.is_correct,
   new_score |-> c.out.new_score, streak |-> c.out.streak,
   level |-> c.out.level, badges |-> Range(c.out.badges),
   total_correct |-> c.out.total_correct]

\* C9: the same guesses, for users that have a record in every store, give
\* the same outcome and leave the same stored score, streak, total_correct
\* and badges in every store.
C9_Interchangeable ==
  \A k1, k2 \in Kinds :
    (last[k1].op = "process_user_click" /\ ~last[k1].unknown /\ ~last[k2].unknown) =>
      /\ Seen(last[k1]) = Seen(last[k2])
      /\ \A u \in UserIds :
           (users[k1][u].present /\ users[k2][u].present) =>
             Stored(users[k1][u]) = Stored(users[k2][u])

\* C10: a guess in which partial_fit raised returns an outcome, and the
\* outcome and the user records are those of the same guess with a
\* partial_fit that succeeds.
C10_FitFailureHarmless ==
  [][\A k \in Kinds :
       (/\ last'[k].op = "process_user_click"
        /\ last'[k].fit \in {"update_raises", "dump_raises"}) =>
         LET c == last'[k]
             ref == process_user_click(k, StoreOf(k), model[k],
                                       c.uid, c.lc, c.idx, "ok")
         IN /\ c.status = "ok"
            /\ ref.fr.status = "ok"
            /\ c.out = ref.fr.out
            /\ users'[k] = ref.users
    ]_vars

\* A correct guess whose partial_fit raised in the incremental update has
\* returned its outcome.
C10_Witness ==
  \E k \in Kinds :
    /\ last[k].op = "process_user_click" /\ last[k].status = "ok"
    /\ last[k].fit = "update_raises"
    /\ last[k].out.is_correct /\ last[k].out.streak = 1
    /\ last[k].out.new_score = base_points

\* The step was a partial_fit call that raised: a direct call whose update
\* or dump raised, or a guess whose partial_fit raised and was caught.
FitRaised(k) ==
  \/ last'[k].op = "partial_fit" /\ last'[k].status = "Exception"
  \/ /\ last'[k].op = "process_user_click"
     /\ last'[k].fit \in {"update_raises", "dump_raises"}

\* C11: when a partial_fit call fails, in the incremental update or in the
\* save to model_path, the classifier (the initialized flag, the parameters)
\* is after the call what it was before it.
C11_FailedFitKeepsState ==
  [][\A k \in Kinds : FitRaised(k) => model'[k] = model[k]]_vars

\* The call was made with a light curve and an index inside it.
ValidPoint(c) == c.flux # <<>> /\ 0 <= c.idx /\ c.idx < Len(c.flux)

\* C12: predict_proba on a classifier that was never trained returns 0.5 for
\* every valid (flux, index) and leaves the classifier as it was,
\* Uninitialized.
C12_ColdStartHalf ==
  [][\A k \in Kinds :
       (/\ last'[k].op \in {"predict_proba", "predict"}
        /\ ~model[k].initialized
        /\ ValidPoint(last'[k])) =>
         /\ last'[k].status = "ok"
         /\ last'[k].prob = Half
         /\ model'[k] = model[k]
         /\ ~model'[k].initialized
    ]_vars

\* predict_proba has answered 0.5 on a classifier whose only partial_fit
\* calls so far failed in the update.
C12_Witness ==
  \E k \in Kinds :
    /\ last[k].op = "predict_proba" /\ last[k].status = "ok"
    /\ last[k].idx = 1 /\ last[k].prob = Half
    /\ model[k] = NewModel
    /\ calls = 3

\* The step was a partial_fit call whose incremental update was applied.
FitApplied(k) ==
  \/ /\ last'[k].op = "partial_fit"
     /\ last'[k].status # "IndexError"
     /\ last'[k].fit \in {"ok", "dump_raises"}
  \/ /\ last'[k].op = "process_user_click"
     /\ last'[k].fit \in {"ok", "dump_raises"}

\* The step was a partial_fit call that got as far as the update.
FitCalled(k) ==
  \/ last'[k].op = "partial_fit" /\ last'[k].status # "IndexError"
  \/ last'[k].op = "process_user_click" /\ last'[k].fit # "not_called"

\* C13 as stated: the classifier begins Uninitialized (one constructed over
\* a saved model continues Trained); a partial_fit call on an Uninitialized
\* classifier (the first one) leaves it Trained with classes {0, 1}; nothing
\* else changes the state, and Trained is never left.
C13_FirstFitTrains ==
  /\ \A k \in Kinds : (calls = 0 /\ model[k] # LoadedModel) => ~model[k].initialized
  /\ [][\A k \in Kinds :
          /\ (FitCalled(k) /\ ~model[k].initialized) =>
               (model'[k].initialized /\ model'[k].labels = {0, 1})
          /\ ~FitCalled(k) => model'[k].initialized = model[k].initialized
          /\ model[k].initialized => model'[k].initialized
       ]_vars

\* C13 amended: the classifier begins Uninitialized (one constructed over a
\* saved model continues Trained); the only transition is
\* Uninitialized -> Trained, taken by the first partial_fit call whose
\* incremental update succeeds, which fixes the classes to {0, 1}; a call
\* whose update raises leaves the classifier as it was; Trained is never
\* left, the classes never change, and predict_proba, predict and
\* get_ai_hint change nothing.
C13_Lifecycle ==
  /\ \A k \in Kinds : (calls = 0 /\ model[k] # LoadedModel) => ~model[k].initialized
  /\ [][\A k \in Kinds :
          /\ (FitApplied(k) /\ ~model[k].initialized) =>
               (model'[k].initialized /\ model'[k].labels = {0, 1})
          /\ ~FitApplied(k) => model'[k] = model[k]
          /\ model[k].initialized =>
               (model'[k].initialized /\ model'[k].labels = model[k].labels)
          /\ model'[k].updates >= model[k].updates
       ]_vars

\* A classifier that was still Uninitialized after two calls (its one
\* update so far is that of the third call) has been trained by a
\* partial_fit call, with classes {0, 1}.
C13_Witness ==
  \E k \in Kinds :
    /\ calls = 3
    /\ last[k].op = "partial_fit" /\ last[k].fit = "ok" /\ last[k].status = "ok"
    /\ model[k] = [initialized |-> TRUE, updates |-> 1, labels |-> {0, 1}]

\* C14: the outcome of every guess that returns contains ai_probability, a
\* probability in [0, 1].
C14_OutcomeHasAiProbability ==
  \A k \in Kinds :
    (last[k].op = "process_user_click" /\ last[k].status = "ok") =>
      /\ "ai_probability" \in DOMAIN last[k].out
      /\ last[k].out.ai_probability \in 0..100

\* C19: get_ai_hint raises KeyError for an unknown id and ValueError for a
\* click_index outside [0, length); otherwise it returns the probability of
\* predict_proba and the prediction 1 exactly when the probability is at
\* least 0.5; in every case the classifier and the user records are left as
\* they were.
C19_HintReadOnly ==
  [][\A k \in Kinds :
       last'[k].op = "get_ai_hint" =>
         LET c == last'[k]
             known == c.lc \in DOMAIN Dataset
             inside == 0 <= c.idx /\ c.idx < Len(Dataset[c.lc])
         IN /\ ~known => c.status = "KeyError"
            /\ (known /\ ~inside) => c.status = "ValueError"
            /\ (known /\ inside) =>
                 /\ c.status = "ok"
                 /\ \E p \in Probs :
                      c.prob = predict_proba(model[k], DatasetTime[c.lc],
                                             DatasetFlux[c.lc], c.idx, p).prob
                 /\ c.prob \in 0..100
                 /\ c.pred \in {0, 1}
                 /\ (c.pred = 1) <=> (c.prob >= Half)
            /\ model'[k] = model[k]
            /\ users'[k] = users[k]
            /\ lock'[k] = lock[k]
    ]_vars

\* A hint on a trained classifier, after a guess gave the player a record:
\* probability exactly 0.5, prediction 1.
C19_Witness ==
  \E k \in Kinds :
    /\ last[k].op = "get_ai_hint" /\ last[k].status = "ok"
    /\ last[k].prob = Half /\ last[k].pred = 1
    /\ model[k].initialized /\ model[k].updates = 2
    /\ users[k][Player].present /\ users[k][Player].score = base_points

\* The update of thread t's partial_fit was applied (it did not raise).
Applied(t) == frames[t].fit \in {"ok", "dump_raises"}

\* C15: when two concurrent guesses have returned, the classifier holds one
\* update per partial_fit whose update was applied (none is lost), and if
\* both were applied at most one of them took the first-call branch that
\* initializes the estimator with the classes.
C15_WritersSerialized ==
  (\A t \in Threads : frames[t].pc = "done" /\ frames[t].status = "ok") =>
    /\ model[TheKind].updates = Cardinality({t \in Threads : Applied(t)})
    /\ (\A t \in Threads : Applied(t)) => \E t \in Threads : ~frames[t].first

\* C16: a get_leaderboard(top_n) call that returns gives min(top_n, number
\* of users) entries, each the stored score and streak of a different user,
\* in descending order of score, and no user left out has a higher score
\* than one listed; with 3 users and top_n = 5 all 3 are listed.
C16_LeaderboardSorted ==
  \A k \in Kinds :
    (last[k].op = "get_leaderboard" /\ last[k].status = "ok") =>
      LET b == last[k].board
          n == Cardinality(Stored_users(k))
          listed == {b[i].user_id : i \in 1..Len(b)}
      IN /\ Len(b) = Min(last[k].top_n, n)
         /\ \A i \in 1..Len(b) - 1 : b[i].score >= b[i + 1].score
         /\ \A i, j \in 1..Len(b) : b[i].user_id = b[j].user_id => i = j
         /\ \A i \in 1..Len(b) :
              /\ b[i].user_id \in Stored_users(k)
              /\ b[i].score = users[k][b[i].user_id].score
              /\ b[i].streak = users[k][b[i].user_id].streak
         /\ \A u \in Stored_users(k) \ listed :
              \A i \in 1..Len(b) : b[i].score >= users[k][u].score
         /\ (n = 3 /\ last[k].top_n = 5) => Len(b) = 3

\* Three users with two different scores, top_n = 5: all three are listed,
\* the highest score first.
C16_Witness ==
  \E k \in Kinds :
    /\ last[k].op = "get_leaderboard" /\ last[k].status = "ok"
    /\ last[k].top_n = 5
    /\ Cardinality(Stored_users(k)) = 3
    /\ Len(last[k].board) = 3
    /\ last[k].board[1].score > last[k].board[3].score

\* C17: over any sequence of guesses, a correct guess that returns raises
\* the user's stored total_correct by exactly 1, an incorrect one leaves it,
\* no guess lowers it, and after every guess each user's total_correct is
\* the number of that user's correct guesses so far; the outcome reports the
\* stored value.
C17_TotalCorrectCounts ==
  [][\A k \in Kinds :
       last'[k].op = "process_user_click" =>
         LET c == last'[k]
             old == users[k][c.uid].total_correct
             new == users'[k][c.uid].total_correct
         IN /\ (c.status = "ok" /\ c.out.is_correct) => new = old + 1
            /\ (c.status = "ok" /\ ~c.out.is_correct) => new = old
            /\ c.status = "ok" => c.out.total_correct = new
            /\ new >= old
            /\ \A u \in UserIds : users'[k][u].total_correct = hits'[k][u]
    ]_vars

\* Three correct guesses so far, the latest guess a miss: total_correct is
\* still 3.
C17_Witness ==
  \E k \in Kinds :
    /\ last[k].op = "process_user_click" /\ last[k].status = "ok"
    /\ ~last[k].out.is_correct
    /\ last[k].out.total_correct = 3
    /\ users[k][Player].total_correct = 3
    /\ hits[k][Player] = 3

\* The name of the tier with the highest minimum score not above the score.
TierOf(score) ==
  CHOOSE name \in {LEVELS[i][1] : i \in DOMAIN LEVELS} :
    \E i \in DOMAIN LEVELS :
      /\ LEVELS[i][1] = name
      /\ LEVELS[i][2] <= score
      /\ \A j \in DOMAIN LEVELS : LEVELS[j][2] <= score => LEVELS[j][2] <= LEVELS[i][2]

\* C18: the level in the outcome of every guess is the tier with the highest
\* minimum score not above the outcome's new_score: Novice Seeker for
\* 0..499, Certified Hunter for 500..2499, Guild Master from 2500.
C18_LevelFromScore ==
  \A k \in Kinds :
    (last[k].op = "process_user_click" /\ last[k].status = "ok") =>
      LET out == last[k].out
      IN /\ out.new_score >= 0
         /\ out.level = TierOf(out.new_score)
         /\ out.new_score <= 499 => out.level = "Novice Seeker"
         /\ (500 <= out.new_score /\ out.new_score <= 2499) =>
              out.level = "Certified Hunter"
         /\ out.new_score >= 2500 => out.level = "Guild Master"

\* A correct guess brought the score from 2490 to exactly 2500: Guild
\* Master.
C18_Witness ==
  \E k \in Kinds :
    /\ last[k].op = "process_user_click" /\ last[k].status = "ok"
    /\ last[k].out.is_correct
    /\ last[k].out.new_score = 2500
    /\ last[k].out.level = "Guild Master"

RECURSIVE SumOver(_, _)
SumOver(S, f) ==
  IF S = {} THEN 0
  ELSE LET j == CHOOSE j \in S : TRUE IN f[j] + SumOver(S \ {j}, f)

\* The feature vector of sample index (counted from 0) of flux, written from
\* its definition: the sample, its difference to the sample before (0 for
\* the first sample), the difference of the sample after to it (0 for the
\* last), and the standard deviation sqrt(num) / den over the samples
\* max(0, index - 3) .. min(length, index + 4) - 1.
FeatureVector(flux, index) ==
  LET n == Len(flux)
      at == [j \in 0..(n - 1) |-> flux[j + 1]]
      W == {j \in 0..(n - 1) : Max(0, index - 3) <= j /\ j < Min(n, index + 4)}
      sq == [j \in 0..(n - 1) |-> at[j] * at[j]]
      c == Cardinality(W)
  IN << at[index],
        IF index = 0 THEN 0 ELSE at[index] - at[index - 1],
        IF index = n - 1 THEN 0 ELSE at[index + 1] - at[index],
        [num |-> c * SumOver(W, sq) - SumOver(W, at) * SumOver(W, at), den |-> c] >>

\* A call that featurized sample idx of its flux array, 0 <= idx < length.
Featurized(c) ==
  /\ c.op \in {"featurize", "predict_proba", "partial_fit"}
  /\ 0 <= c.idx /\ c.idx < Len(c.flux)

\* C20: for 0 <= index < length, featurize, and predict_proba and
\* partial_fit through it, compute the vector [flux[index], difference to
\* the sample before (0 at index 0), difference of the sample after (0 at
\* the last index), std of the window of at most 7 samples], whatever the
\* time array and the classifier state.
C20_FeatureVector ==
  \A k \in Kinds :
    Featurized(last[k]) =>
      /\ last[k].status # "IndexError"
      /\ last[k].x = FeatureVector(last[k].flux, last[k].idx)
      /\ last[k].x[4].den <= 7
      /\ last[k].x[4].den >= 1

\* Training on the first sample of an array of more than 7 samples whose
\* last sample differs from the first: no backward difference, a window of
\* the first 4 samples.
C20_Witness ==
  \E k \in Kinds :
    /\ last[k].op = "partial_fit" /\ last[k].status = "ok"
    /\ Len(last[k].flux) > 7
    /\ last[k].idx = 0
    /\ last[k].flux[1] # last[k].flux[Len(last[k].flux)]
    /\ last[k].x[2] = 0
    /\ last[k].x[4].den = 4
    /\ last[k].x[4].num > 0

\* The arguments of the call pass the validation of lines 71-75.
ValidGuess(c) ==
  /\ c.lc \in DOMAIN Dataset
  /\ 0 <= c.idx /\ c.idx < Len(Dataset[c.lc])

\* C21: a guess that fails validation never calls partial_fit.  A valid
\* guess (it returns an outcome; over the wired store every valid guess
\* does) has called partial_fit exactly once, with label 1 exactly when the
\* ground-truth label at click_index is truthy, which is the is_correct of
\* the outcome, and at the call the store already held the user's record
\* with the reward and the badges of this guess, the record the guess
\* leaves.
C21_FitOnceAfterReward ==
  [][\A k \in Kinds :
       last'[k].op = "process_user_click" =>
         LET c == last'[k]
             old == users[k][c.uid]
         IN /\ ~ValidGuess(c) =>
                 /\ c.status \in {"KeyError", "ValueError"}
                 /\ c.fit_calls = 0 /\ c.fit = "not_called"
                 /\ model'[k] = model[k]
            /\ (ValidGuess(c) /\ k = Wired) => c.status = "ok"
            /\ c.status = "ok" =>
                 /\ ValidGuess(c)
                 /\ c.fit_calls = 1
                 /\ c.label = 1 <=> Dataset[c.lc][c.idx + 1] # 0
                 /\ c.label = 0 <=> Dataset[c.lc][c.idx + 1] = 0
                 /\ c.label = 1 <=> c.out.is_correct
                 /\ c.at_fit = users'[k][c.uid]
                 /\ c.at_fit.score = c.out.new_score
                 /\ c.at_fit.badges = c.out.badges
                 /\ c.at_fit.total_correct = c.out.total_correct
                 /\ c.label = 1 =>
                      /\ c.at_fit.total_correct = old.total_correct + 1
                      /\ c.at_fit.score > old.score
                 /\ c.label = 0 =>
                      c.at_fit.score = Max(0, old.score - penalty)
                 /\ c.at_fit.streak >= streak_min =>
                      RareCandidate \in Range(c.at_fit.badges)
    ]_vars

\* The seventh correct guess in a row: partial_fit was called once, with
\* label 1, when the store already held streak 7 and Rare Candidate.
C21_Witness ==
  \E k \in Kinds :
    /\ last[k].op = "process_user_click" /\ last[k].status = "ok"
    /\ last[k].fit_calls = 1 /\ last[k].label = 1
    /\ last[k].at_fit.streak = streak_min
    /\ last[k].at_fit.score = 280
    /\ last[k].at_fit.badges = <<RareCandidate>>
    /\ calls <= 8

\* The fields of a record a guess updates.
Progress(rec) ==
  [streak |-> rec.streak, score |-> rec.score,
   total_correct |-> rec.total_correct, badges |-> rec.badges]

\* C22: a get_user that returns while a guess of the same user is running,
\* or after it, sees the user's streak, score, total_correct and badges
\* either as they were when the guess started or as the whole guess leaves
\* them.
C22_GuessAtomic ==
  \A k \in Kinds :
    LET g == frames[Guesser]
        c == last[k]
    IN (/\ base.set
        /\ c.op = "get_user" /\ c.status = "ok" /\ c.uid = g.uid) =>
         Progress(c.ret) \in
           {Progress(base.users[g.uid]),
            Progress(process_user_click(k, base, NewModel, g.uid, g.lc, g.idx,
                                        g.fit).users[g.uid])}

C24_NoInterference ==
  \A k \in Kinds : \A t \in Threads :
    LET g == frames[t] IN
    /\ k = Wired => g.pc # "blocked"
    /\ g.pc = "done" =>
         /\ g.status = "ok"
         /\ Progress(users[k][Caller[t]]) = Progress(g.alone)
         /\ g.out.new_score = g.alone.score
         /\ g.out.streak = g.alone.streak
         /\ g.out.total_correct = g.alone.total_correct
         /\ g.out.badges = g.alone.badges

\* Over the wired store, two correct guesses of u1 ran from start to return
\* while the second guess of u2 was between its score and total_correct
\* updates: u1 holds streak 2 and score 30.
C24_Witness ==
  \E k \in Kinds :
    /\ k = Wired
    /\ frames["t1"].pc = "done" /\ frames["t1"].round = 2
    /\ frames["t2"].pc = "total_write" /\ frames["t2"].round = 2
    /\ users[k][Caller["t1"]].streak = 2
    /\ users[k][Caller["t1"]].score = 30
    /\ users[k][Caller["t2"]].score > 0

\* C25: no user ever holds a badge other than the two of BADGE_RULES, and a
\* user comes to hold a badge only in a guess of that user after whose
\* reward step the stored record satisfies the badge's rule: streak >= 7
\* for Rare Candidate, total_correct >= 50 for Consistent.
C25_BadgesEarned ==
  /\ \A k \in Kinds : \A u \in DOMAIN users[k] :
       Range(users[k][u].badges) \subseteq BadgeNames
  /\ [][\A k \in Kinds : \A u \in DOMAIN users[k] :
          LET new == Range(users'[k][u].badges) \ Range(users[k][u].badges)
              c == last'[k]
          IN /\ new \subseteq BadgeNames
             /\ new # {} =>
                  /\ c.op = "process_user_click" /\ c.status = "ok" /\ c.uid = u
                  /\ c.fit_calls = 1
             /\ RareCandidate \in new =>
                  /\ c.at_fit.streak >= streak_min
                  /\ users'[k][u].streak >= streak_min
             /\ "Consistent" \in new =>
                  /\ c.at_fit.total_correct >= total_hits_min
                  /\ users'[k][u].total_correct >= total_hits_min
       ]_vars

\* From total_correct 49, seven correct guesses in a row: Consistent with
\* the first (total_correct 50), Rare Candidate with the seventh.
C25_Witness ==
  \E k \in Kinds :
    /\ last[k].op = "process_user_click" /\ last[k].status = "ok"
    /\ last[k].at_fit.streak = streak_min
    /\ users[k][last[k].uid].total_correct = total_hits_min + 6
    /\ users[k][last[k].uid].badges = <<"Consistent", RareCandidate>>

====
